---- MODULE Spec2Model ----
(***************************************************************************)
(* log_wizard: a logging.Logger subclass (CustomLogger) that prepends a    *)
(* caller identifier and/or the calling function's name to every message   *)
(* while the matching "with" region is open in the emitting thread, and    *)
(* init_logging, which attaches file / console / UI handlers to the one    *)
(* logger registered as 'main_log'.                                        *)
(*                                                                         *)
(* Python values are modelled as tuples: None is <<>>, a str or bool v is  *)
(* <<v>>.  A thread's threading.local namespace is a function whose domain *)
(* is the set of attributes that have been set in that thread.             *)
(***************************************************************************)
EXTENDS Integers, Sequences, FiniteSets, TLC

VARIABLES
    now,         \* calendar month of the wall clock, counted from StartMonth
    dirs,        \* directories that exist
    files,       \* path -> lines of the file, for every file that exists
    console,     \* lines written by StreamHandler
    ui,          \* lines handed to the ui_log_func callback
    loggerDict,  \* logging.Logger.manager.loggerDict: name -> logger, a record
                 \* of the logger's level and its handlers in addHandler order
    started,     \* threads that are running
    thread_local,\* thread -> namespace of CustomLogger.thread_local there
    regions,     \* thread -> open "with" regions, innermost last
    lastOp,      \* thread -> the most recent region entry / exit of the thread
    forwarded,   \* calls made to logging.Logger.debug/info/..., in order
    steps        \* operations on the logger performed so far

vars == <<now, dirs, files, console, ui, loggerDict, started, thread_local,
          regions, lastOp, forwarded, steps>>

----------------------------------------------------------------------------
(* Bounds of the model *)

\* operations (region entries and exits, severity calls, thread starts)
\* performed on the logger in a run
MaxOps == 4
\* calls of init_logging and of severity methods, together, in a run in
\* which init_logging is called more than once
MaxInitOps == 3
\* months the clock may advance in a run
MaxMonths == 1

Threads == {"main", "worker"}

\* caller identifiers passed to insert_proc_id
Ids == {"12345", "A", "B", ""}

\* raw messages passed to the severity methods
Msgs == {"m"}

\* call stacks from which a severity method is called, outermost frame first
CallStacks == {<<"main">>, <<"main", "f">>}

----------------------------------------------------------------------------
(* Python values *)

None == <<>>

Val(v) == <<v>>

\* getattr(ns, name, None)
getattr(ns, name) == IF name \in DOMAIN ns THEN ns[name] ELSE None

\* setattr(ns, name, value)
setattr(ns, name, value) ==
    [a \in DOMAIN ns \cup {name} |-> IF a = name THEN value ELSE ns[a]]

\* truth value of an Optional[str]: None and '' are false
TruthyStr(v) == v # None /\ v[1] # ""

\* truth value of an Optional[bool]
TruthyBool(v) == v # None /\ v[1]

EmptyNamespace == [a \in {} |-> None]

----------------------------------------------------------------------------
(* Levels of the logging library *)

NOTSET == 0
DEBUG == 10
INFO == 20
WARNING == 30
ERROR == 40
CRITICAL == 50

\* %(levelname)s
levelname(levelno) ==
    CASE levelno = DEBUG -> "DEBUG"
      [] levelno = INFO -> "INFO"
      [] levelno = WARNING -> "WARNING"
      [] levelno = ERROR -> "ERROR"
      [] levelno = CRITICAL -> "CRITICAL"

----------------------------------------------------------------------------
(* CustomLogger: the annotation context and the message enricher *)

\* a namespace shared by all threads, as a plain attribute would be
LocalShared(t) == "main"
\* self.thread_local = threading.local(): every thread sees its own namespace
Local(t) == t

\* the frame one level above get_custome_msg: the severity method itself
CallerFrameOneBack(frames) == frames[Len(frames) - 1]
\* the frame two levels above get_custome_msg: the caller of the severity method
CallerFrame(frames) == frames[Len(frames) - 2]

\* the two prefixes applied in the other order
DecorateIdInside(proc_id, print_func_name, func_name, msg) ==
    LET with_id == IF TruthyStr(proc_id) THEN proc_id[1] \o " - " \o msg ELSE msg
    IN  IF TruthyBool(print_func_name) THEN func_name \o " - " \o with_id
        ELSE with_id
\* the function name prepended whether or not the flag is set
DecorateAlwaysFuncName(proc_id, print_func_name, func_name, msg) ==
    LET with_func == func_name \o " - " \o msg
    IN  IF TruthyStr(proc_id) THEN proc_id[1] \o " - " \o with_func
        ELSE with_func
\* the caller ID tested against None instead of for truth
DecorateIdNotNone(proc_id, print_func_name, func_name, msg) ==
    LET with_func == IF TruthyBool(print_func_name)
                     THEN func_name \o " - " \o msg ELSE msg
    IN  IF proc_id # None THEN proc_id[1] \o " - " \o with_func
        ELSE with_func
\* lines 103-108: the function name goes on first, the caller ID around it
Decorate(proc_id, print_func_name, func_name, msg) ==
    LET with_func == IF TruthyBool(print_func_name)
                     THEN func_name \o " - " \o msg ELSE msg
    IN  IF TruthyStr(proc_id) THEN proc_id[1] \o " - " \o with_func
        ELSE with_func

\* CustomLogger.get_custome_msg, called by thread t with the stack `frames`
get_custome_msg(t, msg, frames) ==
    LET func_name == CallerFrame(frames)
        proc_id == getattr(thread_local[Local(t)], "proc_id")
        print_func_name == getattr(thread_local[Local(t)], "print_func_name")
    IN  Decorate(proc_id, print_func_name, func_name, msg)

\* a region that puts back the value it found on entry
ExitRestoresPrev(cur, region, how) == region.prev
\* a region without try/finally: a failure leaves the attribute as it is
ExitSkippedOnRaise(cur, region, how) == IF how = "raise" THEN cur ELSE None
\* the value the finally clause stores in the attribute, which holds cur,
\* when `region` is left by `how`
ExitValue(cur, region, how) == None

\* the finally clause of insert_func_name resetting 'proc_id' as well
ExitAttrProcId(kind) == "proc_id"
\* the finally clause of insert_proc_id resetting 'print_func_name' instead
ExitAttrFuncName(kind) == "print_func_name"
\* the attribute the finally clause of a region of `kind` resets
ExitAttr(kind) == kind

\* None stored on entry, as the finally clause does on exit
EnterValueNone(proc_id) == None
\* the value insert_proc_id stores on entry
EnterValue(proc_id) == Val(proc_id)

\* a thread that has performed no region entry or exit
NoOp == [op |-> "none", kind |-> "", arg |-> None, how |-> ""]

\* a region of `kind` on top of thread t's open regions.  prev is the value
\* of the attribute on entry; innerExited tells whether a region of the same
\* kind nested in this one has exited; sibling holds the argument of the
\* region of the same kind that exited right before this one was entered
Push(t, kind, arg) ==
    LET ns == thread_local[Local(t)]
        sib == IF lastOp[t].op = "exit" /\ lastOp[t].kind = kind
               THEN <<lastOp[t].arg>> ELSE <<>>
    IN  Append(regions[t],
               [kind |-> kind, arg |-> arg, prev |-> getattr(ns, kind),
                innerExited |-> FALSE, sibling |-> sib])

\* thread t's open regions once the innermost one has been left
Pop(t) ==
    LET rs == regions[t]
        top == rs[Len(rs)]
    IN  [i \in 1..(Len(rs) - 1) |->
            IF rs[i].kind = top.kind
            THEN [rs[i] EXCEPT !.innerExited = TRUE] ELSE rs[i]]

\* thread t holds the logger and may perform one more operation on it
Ready(t) ==
    t \in started /\ "main_log" \in DOMAIN loggerDict /\ steps < MaxOps

\* with logger.insert_proc_id(proc_id): up to the yield
insert_proc_id_enter(t, proc_id) ==
    /\ Ready(t)
    /\ thread_local' = [thread_local EXCEPT ![Local(t)] =
                          setattr(@, "proc_id", EnterValue(proc_id))]
    /\ regions' = [regions EXCEPT ![t] = Push(t, "proc_id", Val(proc_id))]
    /\ lastOp' = [lastOp EXCEPT ![t] = [op |-> "enter", kind |-> "proc_id",
                                        arg |-> Val(proc_id), how |-> ""]]
    /\ steps' = steps + 1
    /\ UNCHANGED <<now, dirs, files, console, ui, loggerDict, started, forwarded>>

\* with logger.insert_func_name(): up to the yield
insert_func_name_enter(t) ==
    /\ Ready(t)
    /\ thread_local' = [thread_local EXCEPT ![Local(t)] =
                          setattr(@, "print_func_name", Val(TRUE))]
    /\ regions' = [regions EXCEPT ![t] = Push(t, "print_func_name", None)]
    /\ lastOp' = [lastOp EXCEPT ![t] = [op |-> "enter", kind |-> "print_func_name",
                                        arg |-> None, how |-> ""]]
    /\ steps' = steps + 1
    /\ UNCHANGED <<now, dirs, files, console, ui, loggerDict, started, forwarded>>

\* the finally clause of the innermost region of thread t, of kind `kind`;
\* how = "return": the block ended; how = "raise": a failure leaves the block
RegionExit(t, kind, how) ==
    /\ Ready(t)
    /\ regions[t] # <<>>
    /\ LET top == regions[t][Len(regions[t])]
           ns == thread_local[Local(t)]
       IN  /\ top.kind = kind
           /\ thread_local' = [thread_local EXCEPT ![Local(t)] =
                  setattr(@, ExitAttr(kind),
                          ExitValue(getattr(ns, kind), top, how))]
           /\ lastOp' = [lastOp EXCEPT ![t] = [op |-> "exit", kind |-> kind,
                                               arg |-> top.arg, how |-> how]]
    /\ regions' = [regions EXCEPT ![t] = Pop(t)]
    /\ steps' = steps + 1
    /\ UNCHANGED <<now, dirs, files, console, ui, loggerDict, started, forwarded>>

insert_proc_id_exit(t, how) == RegionExit(t, "proc_id", how)

insert_func_name_exit(t, how) == RegionExit(t, "print_func_name", how)

\* threading.Thread(...).start(): the new thread's namespace is empty
StartThread(t) ==
    /\ "main_log" \in DOMAIN loggerDict
    /\ steps < MaxOps
    /\ t \notin started
    /\ started' = started \cup {t}
    /\ steps' = steps + 1
    /\ UNCHANGED <<now, dirs, files, console, ui, loggerDict, thread_local,
                   regions, lastOp, forwarded>>

----------------------------------------------------------------------------
(* The clock and the formatter *)

Digit == <<"0", "1", "2", "3", "4", "5", "6", "7", "8", "9">>

TwoDigits(n) == Digit[((n \div 10) % 10) + 1] \o Digit[(n % 10) + 1]

FourDigits(n) == TwoDigits(n \div 100) \o TwoDigits(n % 100)

\* the month and year the clock shows when no month has passed
Start == [month |-> 12, year |-> 2023]

\* datetime.datetime.now().strftime("%m")
current_month == TwoDigits(((Start.month - 1 + now) % 12) + 1)

\* datetime.datetime.now().strftime("%Y")
current_year == FourDigits(Start.year + ((Start.month - 1 + now) \div 12))

\* %(asctime)s with datefmt '%d.%m.%Y %H:%M:%S'; the clock counts whole months
asctime == "01." \o current_month \o "." \o current_year \o " 00:00:00"

\* logging.Formatter('%(asctime)s - %(levelname)s - %(message)s')
log_formatter(levelno, message) ==
    asctime \o " - " \o levelname(levelno) \o " - " \o message

----------------------------------------------------------------------------
(* The handlers and the logging library's dispatch *)

\* the 'main_log' logger, once registered
level == loggerDict["main_log"].level

handlers ==
    IF "main_log" \in DOMAIN loggerDict THEN loggerDict["main_log"].handlers
    ELSE <<>>

\* what the handlers write to, as one value
Sinks == [files |-> files, console |-> console, ui |-> ui]

\* Handler.handle: the handler's own level filters, then emit writes the line
handle(h, levelno, message, sinks) ==
    IF levelno < h.level THEN sinks
    ELSE LET line == log_formatter(levelno, message)
         IN  CASE h.kind = "file" ->
                    [sinks EXCEPT !.files[h.path] = Append(@, line)]
               [] h.kind = "console" ->
                    [sinks EXCEPT !.console = Append(@, line)]
               [] h.kind = "ui" ->
                    [sinks EXCEPT !.ui = Append(@, line)]

\* Logger.callHandlers: every handler of the logger, in addHandler order
RECURSIVE callHandlers(_, _, _, _)
callHandlers(hs, levelno, message, sinks) ==
    IF hs = <<>> THEN sinks
    ELSE callHandlers(Tail(hs), levelno, message,
                      handle(Head(hs), levelno, message, sinks))

\* the logger filtering at WARNING, the level of a logger never given one
Logger_log_at_warning(levelno, message) ==
    IF levelno >= WARNING THEN callHandlers(handlers, levelno, message, Sinks)
    ELSE Sinks
\* Logger.debug/info/...: isEnabledFor(levelno), then the handlers
Logger_log(levelno, message) ==
    IF levelno >= level THEN callHandlers(handlers, levelno, message, Sinks)
    ELSE Sinks

\* a severity call that uses the caller ID up: 'proc_id' is None afterwards
EmitConsumesId(t, method, levelno, msg, callers) ==
    /\ Ready(t)
    /\ LET frames == callers \o <<method, "get_custome_msg">>
           custom_msg == get_custome_msg(t, msg, frames)
           out == Logger_log(levelno, custom_msg)
       IN  /\ files' = out.files
           /\ console' = out.console
           /\ ui' = out.ui
           /\ forwarded' = Append(forwarded,
                 [thread |-> t, method |-> method, levelno |-> levelno,
                  raw |-> msg, func_name |-> callers[Len(callers)],
                  msg |-> custom_msg,
                  regions |-> regions, lastOp |-> lastOp[t],
                  proc_id |-> getattr(thread_local[Local(t)], "proc_id"),
                  print_func_name |->
                      getattr(thread_local[Local(t)], "print_func_name"),
                  handlers |-> handlers, before |-> Sinks])
    /\ thread_local' = [thread_local EXCEPT ![Local(t)] =
                          setattr(@, "proc_id", None)]
    /\ steps' = steps + 1
    /\ UNCHANGED <<now, dirs, loggerDict, started, regions, lastOp>>
\* one call of a severity method by thread t: `method` at `levelno`, with the
\* raw message msg, from the call stack `callers`.  The entry added to
\* forwarded holds the call's arguments, the string handed on, and the
\* thread's regions and attributes, the handlers and the sinks at the call
Emit(t, method, levelno, msg, callers) ==
    /\ Ready(t)
    /\ LET frames == callers \o <<method, "get_custome_msg">>
           custom_msg == get_custome_msg(t, msg, frames)
           out == Logger_log(levelno, custom_msg)
       IN  /\ files' = out.files
           /\ console' = out.console
           /\ ui' = out.ui
           /\ forwarded' = Append(forwarded,
                 [thread |-> t, method |-> method, levelno |-> levelno,
                  raw |-> msg, func_name |-> callers[Len(callers)],
                  msg |-> custom_msg,
                  regions |-> regions, lastOp |-> lastOp[t],
                  proc_id |-> getattr(thread_local[Local(t)], "proc_id"),
                  print_func_name |->
                      getattr(thread_local[Local(t)], "print_func_name"),
                  handlers |-> handlers, before |-> Sinks])
    /\ steps' = steps + 1
    /\ UNCHANGED <<now, dirs, loggerDict, started, thread_local, regions, lastOp>>

debug(t, msg, callers) == Emit(t, "debug", DEBUG, msg, callers)

\* info forwarding to super().debug
info_at_debug(t, msg, callers) == Emit(t, "info", DEBUG, msg, callers)
info(t, msg, callers) == Emit(t, "info", INFO, msg, callers)

warning(t, msg, callers) == Emit(t, "warning", WARNING, msg, callers)

error(t, msg, callers) == Emit(t, "error", ERROR, msg, callers)

critical(t, msg, callers) == Emit(t, "critical", CRITICAL, msg, callers)

----------------------------------------------------------------------------
(* Logger initialisation *)

\* CustomLogger(logger_name): level NOTSET, no handlers
NewLogger == [level |-> NOTSET, handlers |-> <<>>]

\* a new logger registered on every call
get_custome_logger_fresh(logger_name) ==
    [n \in DOMAIN loggerDict \cup {logger_name} |->
        IF n = logger_name THEN NewLogger ELSE loggerDict[n]]
\* get_custome_logger: the registry after the call; a name already
\* registered keeps its logger
get_custome_logger(logger_name) ==
    IF logger_name \in DOMAIN loggerDict THEN loggerDict
    ELSE [n \in DOMAIN loggerDict \cup {logger_name} |->
            IF n = logger_name THEN NewLogger ELSE loggerDict[n]]

\* os.path.join(log_dir, f"{current_month}.{current_year}.{log_name_postfix}")
log_file_path(log_dir, log_name_postfix) ==
    log_dir \o "/" \o current_month \o "." \o current_year \o "." \o log_name_postfix

\* every open empties the file, as mode "w" does
open_truncate(fs, path, mode) ==
    [p \in DOMAIN fs \cup {path} |-> IF p = path THEN <<>> ELSE fs[p]]
\* open(path, mode): "a" keeps the lines of an existing file, "w" drops them
open(fs, path, mode) ==
    IF path \in DOMAIN fs /\ mode = "a" THEN fs
    ELSE [p \in DOMAIN fs \cup {path} |-> IF p = path THEN <<>> ELSE fs[p]]

\* a console handler added whether or not print_in_con is set
NewHandlersConsoleAlways(path, log_level, ui_log_func, print_in_con) ==
    <<[kind |-> "file", level |-> log_level, path |-> path],
      [kind |-> "console", level |-> log_level, path |-> ""]>>
    \o (IF ui_log_func
        THEN <<[kind |-> "ui", level |-> log_level, path |-> ""]>>
        ELSE <<>>)
\* the handlers one call of init_logging adds, in addHandler order
NewHandlers(path, log_level, ui_log_func, print_in_con) ==
    <<[kind |-> "file", level |-> log_level, path |-> path]>>
    \o (IF print_in_con
        THEN <<[kind |-> "console", level |-> log_level, path |-> ""]>>
        ELSE <<>>)
    \o (IF ui_log_func
        THEN <<[kind |-> "ui", level |-> log_level, path |-> ""]>>
        ELSE <<>>)

\* calls of init_logging so far: each adds exactly one file handler
InitCalls == Cardinality({i \in DOMAIN handlers : handlers[i].kind = "file"})

\* init_logging(log_name_postfix, log_level, log_dir, ui_log_func, print_in_con);
\* ui_log_func is TRUE when a callback is given
init_logging(log_name_postfix, log_level, log_dir, ui_log_func, print_in_con) ==
    /\ InitCalls + Len(forwarded) < MaxInitOps
    /\ dirs' = dirs \cup {log_dir}
    /\ files' = open(files, log_file_path(log_dir, log_name_postfix), "a")
    /\ LET registry == get_custome_logger("main_log")
           logger == registry["main_log"]
           added == NewHandlers(log_file_path(log_dir, log_name_postfix),
                                log_level, ui_log_func, print_in_con)
       IN  loggerDict' = [registry EXCEPT !["main_log"] =
                            [level |-> DEBUG,
                             handlers |-> logger.handlers \o added]]
    /\ UNCHANGED <<now, console, ui, started, thread_local, regions, lastOp,
                   forwarded, steps>>

\* a month passes
Tick ==
    /\ now < MaxMonths
    /\ now' = now + 1
    /\ UNCHANGED <<dirs, files, console, ui, loggerDict, started, thread_local,
                   regions, lastOp, forwarded, steps>>

----------------------------------------------------------------------------
(* Specifications *)

Init ==
    /\ now = 0
    /\ dirs = {}
    /\ files = [p \in {} |-> <<>>]
    /\ console = <<>>
    /\ ui = <<>>
    /\ loggerDict = [n \in {} |-> NewLogger]
    /\ started = {"main"}
    /\ thread_local = [t \in Threads |-> EmptyNamespace]
    /\ regions = [t \in Threads |-> <<>>]
    /\ lastOp = [t \in Threads |-> NoOp]
    /\ forwarded = <<>>
    /\ steps = 0

Hows == {"return", "raise"}

\* main(): the logger set up as main() does, then the main thread entering
\* and leaving regions and logging
Next ==
    \/ /\ handlers = <<>>
       /\ init_logging("log.txt", INFO, "log", FALSE, TRUE)
    \/ \E id \in Ids : insert_proc_id_enter("main", id)
    \/ insert_func_name_enter("main")
    \/ \E how \in Hows : insert_proc_id_exit("main", how)
    \/ \E how \in Hows : insert_func_name_exit("main", how)
    \/ \E m \in Msgs, cs \in CallStacks : debug("main", m, cs)
    \/ \E m \in Msgs, cs \in CallStacks : info("main", m, cs)
    \/ \E m \in Msgs, cs \in CallStacks : warning("main", m, cs)
    \/ \E m \in Msgs, cs \in CallStacks : error("main", m, cs)
    \/ \E m \in Msgs, cs \in CallStacks : critical("main", m, cs)

Spec == Init /\ [][Next]_vars

\* the logger set up as main() does, then two threads that share it
NextThreads ==
    \/ /\ handlers = <<>>
       /\ init_logging("log.txt", INFO, "log", FALSE, TRUE)
    \/ StartThread("worker")
    \/ \E t \in Threads : insert_proc_id_enter(t, "A")
    \/ \E t \in Threads : insert_func_name_enter(t)
    \/ \E t \in Threads, how \in Hows : insert_proc_id_exit(t, how)
    \/ \E t \in Threads, how \in Hows : insert_func_name_exit(t, how)
    \/ \E t \in Threads : debug(t, "m", <<"main">>)
    \/ \E t \in Threads : info(t, "m", <<"main">>)
    \/ \E t \in Threads : warning(t, "m", <<"main">>)
    \/ \E t \in Threads : error(t, "m", <<"main">>)
    \/ \E t \in Threads : critical(t, "m", <<"main">>)

SpecThreads == Init /\ [][NextThreads]_vars

\* levels passed to init_logging
InitLevels == {INFO, ERROR}

\* init_logging called again and again, over months, by a thread that logs
NextInit ==
    \/ \E lv \in InitLevels, uf \in BOOLEAN, con \in BOOLEAN :
          init_logging("log.txt", lv, "log", uf, con)
    \/ Tick
    \/ InitCalls + Len(forwarded) < MaxInitOps /\ debug("main", "m", <<"main">>)
    \/ InitCalls + Len(forwarded) < MaxInitOps /\ info("main", "m", <<"main">>)
    \/ InitCalls + Len(forwarded) < MaxInitOps /\ warning("main", "m", <<"main">>)
    \/ InitCalls + Len(forwarded) < MaxInitOps /\ error("main", "m", <<"main">>)
    \/ InitCalls + Len(forwarded) < MaxInitOps /\ critical("main", "m", <<"main">>)

SpecInit == Init /\ [][NextInit]_vars

----------------------------------------------------------------------------
(* Properties *)

Kinds == {"proc_id", "print_func_name"}

HasPrefix(s, p) == Len(s) >= Len(p) /\ SubSeq(s, 1, Len(p)) = p

\* index of the innermost region of `kind` in rs, 0 when there is none
InnerIdx(rs, kind) ==
    LET S == {i \in DOMAIN rs : rs[i].kind = kind}
    IN  IF S = {} THEN 0 ELSE CHOOSE i \in S : \A j \in S : j <= i

Calls == DOMAIN forwarded

\* the regions the calling thread had open at call i
Own(i) == forwarded[i].regions[forwarded[i].thread]

\* the string handed on at call i carries the caller ID id, and the function
\* name if the flag was set
WithCallerId(i, id) ==
    LET r == forwarded[i]
    IN  r.msg = id \o " - " \o (IF TruthyBool(r.print_func_name)
                                THEN r.func_name \o " - " \o r.raw ELSE r.raw)

\* the string handed on at call i carries no caller ID
NoCallerId(i) ==
    LET r == forwarded[i]
    IN  r.msg = (IF TruthyBool(r.print_func_name)
                 THEN r.func_name \o " - " \o r.raw ELSE r.raw)

\* the string handed on at call i carries no function name
NoFuncName(i) ==
    LET r == forwarded[i]
    IN  r.msg = (IF TruthyStr(r.proc_id)
                 THEN r.proc_id[1] \o " - " \o r.raw ELSE r.raw)

\* thread t leaves its innermost region in this step
Exits(t) == Len(regions'[t]) < Len(regions[t])

Top(t) == regions[t][Len(regions[t])]

\* C1, as stated: for any caller identifier id, every message emitted while
\* insert_proc_id(id) is the thread's innermost caller-ID region is handed on
\* with the prefix "id - ", and a message emitted right after a caller-ID
\* region has exited does not start with that region's "id - ".
C1_EveryIdPrefixed ==
    \A i \in Calls :
        LET r == forwarded[i]
            k == InnerIdx(Own(i), "proc_id")
        IN  /\ k > 0 => HasPrefix(r.msg, Own(i)[k].arg[1] \o " - ")
            /\ (k = 0 /\ r.lastOp.op = "exit" /\ r.lastOp.kind = "proc_id")
                  => ~HasPrefix(r.msg, r.lastOp.arg[1] \o " - ")

\* C1, amended: for any non-empty id, every message emitted while
\* insert_proc_id(id) is the innermost caller-ID region, and no caller-ID
\* region nested in it has exited, is handed on as "id - " followed by the
\* rest; when id is empty, or a nested caller-ID region has exited, or no
\* caller-ID region is open, the message carries no caller ID.
C1_NonEmptyIdPrefixed ==
    \A i \in Calls :
        LET k == InnerIdx(Own(i), "proc_id")
        IN  IF k > 0 /\ Own(i)[k].arg[1] # "" /\ ~Own(i)[k].innerExited
            THEN WithCallerId(i, Own(i)[k].arg[1])
            ELSE NoCallerId(i)

\* a message prefixed inside insert_proc_id("A"), then one without the prefix
\* after the region has exited
C1_Witness ==
    /\ Len(forwarded) = 2
    /\ Len(Own(1)) = 1 /\ Own(1)[1].arg = Val("A")
    /\ forwarded[1].msg = "A - m"
    /\ Own(2) = <<>> /\ forwarded[2].lastOp.op = "exit"
    /\ forwarded[2].msg = "m"

\* C2, as stated: when a region exits, by return or by a failure, the
\* attribute of its kind holds again the value it had right before the region
\* was entered.
C2_ExitRestoresPrior ==
    [][\A t \in Threads :
          Exits(t) => getattr(thread_local'[t], Top(t).kind) = Top(t).prev]_vars

\* C3: the exit of a region always leaves its attribute None, and a message
\* emitted when a region of some kind is open in which a region of the same
\* kind has exited carries no annotation of that kind.
C3_ExitResetsToAbsent ==
    /\ [][\A t \in Threads :
            Exits(t) => getattr(thread_local'[t], Top(t).kind) = None]_vars
    /\ [](\A i \in Calls :
            LET p == InnerIdx(Own(i), "proc_id")
                f == InnerIdx(Own(i), "print_func_name")
            IN  /\ (p > 0 /\ Own(i)[p].innerExited) => NoCallerId(i)
                /\ (f > 0 /\ Own(i)[f].innerExited) => NoFuncName(i))

\* a message emitted in insert_proc_id("A") after a nested insert_proc_id("B")
\* has exited: it is handed on bare
C3_Witness ==
    \E i \in Calls :
        /\ Len(Own(i)) = 1
        /\ Own(i)[1].arg = Val("A") /\ Own(i)[1].innerExited
        /\ forwarded[i].lastOp.arg = Val("B")
        /\ forwarded[i].msg = forwarded[i].raw

\* C4: right after a region has been left, through a failure exactly as by
\* return, the attribute of its kind is None.
C4_FailureExitClears ==
    \A t \in Threads :
        (lastOp[t].op = "exit" /\ lastOp[t].how \in {"raise", "return"})
            => getattr(thread_local[t], lastOp[t].kind) = None

\* insert_proc_id("A") left through a failure
C4_Witness ==
    /\ lastOp["main"] = [op |-> "exit", kind |-> "proc_id", arg |-> Val("A"),
                         how |-> "raise"]
    /\ "proc_id" \in DOMAIN thread_local["main"]
    /\ thread_local["main"]["proc_id"] = None

\* C6, as stated: whenever both attributes are set (the caller ID is not None
\* and the flag is true) the message handed on is
\* "<proc_id> - <func_name> - <msg>".
C6_BothActiveOrder ==
    \A i \in Calls :
        LET r == forwarded[i]
        IN  (r.proc_id # None /\ TruthyBool(r.print_func_name))
                => r.msg = r.proc_id[1] \o " - " \o r.func_name \o " - " \o r.raw

\* C6, amended: whenever the caller ID is a non-empty string and the flag is
\* true, the message handed on is "<proc_id> - <func_name> - <msg>", in
\* whichever order the two regions were entered.
C6_BothActiveNonEmptyOrder ==
    \A i \in Calls :
        LET r == forwarded[i]
        IN  (TruthyStr(r.proc_id) /\ TruthyBool(r.print_func_name))
                => r.msg = r.proc_id[1] \o " - " \o r.func_name \o " - " \o r.raw

\* insert_proc_id("A") entered inside insert_func_name(), a call from f
C6_Witness ==
    \E i \in Calls :
        /\ Len(Own(i)) = 2
        /\ Own(i)[1].kind = "print_func_name"
        /\ Own(i)[2].kind = "proc_id" /\ Own(i)[2].arg = Val("A")
        /\ forwarded[i].func_name = "f"
        /\ forwarded[i].msg = "A - f - m"

\* C7: with the caller ID None or never set and the flag None or never set,
\* the string handed on is the raw message.
C7_NoAnnotationUnchanged ==
    \A i \in Calls :
        LET r == forwarded[i]
        IN  (r.proc_id = None /\ ~TruthyBool(r.print_func_name)) => r.msg = r.raw

\* a call from f with no region open, after a region has exited, and a call
\* from main before any region
C7_Witness ==
    /\ Len(forwarded) = 2
    /\ forwarded[1].lastOp = NoOp /\ forwarded[1].func_name = "main"
    /\ forwarded[1].msg = forwarded[1].raw
    /\ forwarded[2].lastOp.op = "exit" /\ Own(2) = <<>>
    /\ forwarded[2].func_name = "f"
    /\ forwarded[2].msg = forwarded[2].raw

\* C8: a message emitted in a caller-ID region entered right after a sibling
\* caller-ID region exited never starts with the sibling's prefix, and carries
\* the prefix of the region it is in (id non-empty, no nested caller-ID region
\* exited).
C8_SiblingsDoNotLeak ==
    \A i \in Calls :
        LET k == InnerIdx(Own(i), "proc_id")
        IN  (k > 0 /\ Own(i)[k].sibling # <<>>) =>
              LET a == Own(i)[k].sibling[1][1]
                  b == Own(i)[k].arg[1]
              IN  /\ (a # b /\ a # "") => ~HasPrefix(forwarded[i].msg, a \o " - ")
                  /\ (b # "" /\ ~Own(i)[k].innerExited) => WithCallerId(i, b)

\* insert_proc_id("A") entered and left, then a message in insert_proc_id("B")
C8_Witness ==
    \E i \in Calls :
        /\ Len(Own(i)) = 1
        /\ Own(i)[1].arg = Val("B") /\ Own(i)[1].sibling = <<Val("A")>>
        /\ forwarded[i].msg = "B - m"

\* C9: the entry or exit of a region of one kind leaves the attribute of the
\* other kind as it was; a message emitted in insert_proc_id("12345") right
\* after a nested insert_func_name() exited is "12345 - <msg>", and one emitted
\* right after insert_proc_id("12345") exited, no region open, is "<msg>".
C9_OtherKindUntouched ==
    /\ [][\A t \in Threads, k \in Kinds :
            (regions'[t] # regions[t] /\ lastOp'[t].kind # k)
                => /\ (k \in DOMAIN thread_local'[t]) = (k \in DOMAIN thread_local[t])
                   /\ getattr(thread_local'[t], k) = getattr(thread_local[t], k)]_vars
    /\ [](\A i \in Calls :
            LET r == forwarded[i]
            IN  /\ ( /\ Len(Own(i)) = 1
                     /\ Own(i)[1].kind = "proc_id"
                     /\ Own(i)[1].arg = Val("12345")
                     /\ ~Own(i)[1].innerExited
                     /\ r.lastOp.op = "exit"
                     /\ r.lastOp.kind = "print_func_name" )
                    => r.msg = "12345 - " \o r.raw
                /\ ( /\ Own(i) = <<>>
                     /\ r.lastOp.op = "exit"
                     /\ r.lastOp.kind = "proc_id"
                     /\ r.lastOp.arg = Val("12345") )
                    => r.msg = r.raw)

\* a message in insert_proc_id("12345") after the nested insert_func_name()
\* has exited
C9_Witness ==
    \E i \in Calls :
        /\ Len(Own(i)) = 1
        /\ Own(i)[1].arg = Val("12345")
        /\ forwarded[i].lastOp.op = "exit"
        /\ forwarded[i].lastOp.kind = "print_func_name"
        /\ forwarded[i].func_name = "f"
        /\ forwarded[i].msg = "12345 - m"

----------------------------------------------------------------------------
(* Properties of threads and of initialisation *)

\* the stacks a severity method is called from in some thread
FramesOf(method) == {cs \o <<method, "get_custome_msg">> : cs \in CallStacks}

\* C5: a region entry or exit in one thread leaves what get_custome_msg
\* returns in every other thread unchanged, and a thread that has entered no
\* region has its messages handed on undecorated, whatever regions the other
\* threads are in.
C5_ThreadsIsolated ==
    /\ [][\A t \in Threads : \A u \in Threads \ {t} :
            regions'[t] # regions[t] =>
                \A m \in Msgs, fs \in FramesOf("info") :
                    get_custome_msg(u, m, fs)' = get_custome_msg(u, m, fs)]_vars
    /\ [](\A i \in Calls :
            forwarded[i].lastOp = NoOp => forwarded[i].msg = forwarded[i].raw)

\* the worker logs, having entered no region, while main is in
\* insert_proc_id("A")
C5_Witness ==
    \E i \in Calls :
        /\ forwarded[i].thread = "worker"
        /\ forwarded[i].lastOp = NoOp
        /\ forwarded[i].regions["main"] # <<>>
        /\ forwarded[i].regions["main"][1].arg = Val("A")
        /\ getattr(thread_local["main"], "proc_id") = Val("A")
        /\ forwarded[i].msg = "m"

\* n copies of the handlers hs, one after the other
RECURSIVE Rep(_, _)
Rep(hs, n) == IF n = 0 THEN <<>> ELSE hs \o Rep(hs, n - 1)

\* the sinks right after call i
After(i) == IF i < Len(forwarded) THEN forwarded[i + 1].before ELSE Sinks

\* lines call i added to the file at path, to the console, to the UI callback
FileLines(i, path) ==
    Len(After(i).files[path]) - Len(forwarded[i].before.files[path])

ConsoleLines(i) == Len(After(i).console) - Len(forwarded[i].before.console)

UiLines(i) == Len(After(i).ui) - Len(forwarded[i].before.ui)

\* every call i made when the handlers were those of n identical calls
\* init_logging(.., lv, .., uf, con), at a level that passes lv, added
\* Count(n) lines to the file, to the console if con, to the callback if uf
DeliveredPerDestination(Count(_)) ==
    \A i \in Calls, n \in 1..MaxInitOps, lv \in InitLevels,
       uf \in BOOLEAN, con \in BOOLEAN :
        LET r == forwarded[i]
        IN  ( /\ r.handlers # <<>>
              /\ r.handlers = Rep(NewHandlers(r.handlers[1].path, lv, uf, con), n)
              /\ r.levelno >= lv )
            => /\ FileLines(i, r.handlers[1].path) = Count(n)
               /\ con => ConsoleLines(i) = Count(n)
               /\ uf => UiLines(i) = Count(n)

Once(n) == 1

Times(n) == n

IsPrefix(s, t) == Len(s) <= Len(t) /\ SubSeq(t, 1, Len(s)) = s

\* C10, as stated: after any number of identical init_logging calls, each
\* message that passes the level is delivered to each destination once.
C10_DeliveredOnce == DeliveredPerDestination(Once)

\* C10, amended: repeated init_logging calls keep the one logger registered
\* as 'main_log' and its handlers, and each call adds its own handlers after
\* them; so after n identical calls each message that passes the level is
\* delivered n times to each destination.
C10_DeliveredPerCall ==
    /\ [][/\ IsPrefix(handlers, handlers')
          /\ DOMAIN loggerDict' \subseteq {"main_log"}]_vars
    /\ [](DeliveredPerDestination(Times))

\* an ERROR message after two calls init_logging('log.txt', INFO,
\* print_in_con=True): two lines in the file and two on the console
C10_Witness ==
    \E i \in Calls :
        LET r == forwarded[i]
        IN  /\ r.handlers # <<>>
            /\ r.handlers = Rep(NewHandlers(r.handlers[1].path, INFO, FALSE, TRUE), 2)
            /\ r.levelno = ERROR
            /\ FileLines(i, r.handlers[1].path) = 2
            /\ ConsoleLines(i) = 2

----------------------------------------------------------------------------
(* Properties of the log file, the levels and the handlers *)

\* the file handlers among hs
FileHandlers(hs) == {j \in DOMAIN hs : hs[j].kind = "file"}

\* C11: a log file is only ever appended to: in every step, init_logging
\* called again for the same postfix and directory in the same month and
\* every later emission included, each file that exists still exists and
\* the lines it held are still its first lines, in the same order.
C11_FileOnlyAppended ==
    [][\A p \in DOMAIN files :
          p \in DOMAIN files' /\ IsPrefix(files[p], files'[p])]_vars

\* init_logging, a message written to the file, then init_logging again in
\* the same month: two file handlers on the one path, the line still there
C11_Witness ==
    /\ Len(forwarded) = 1
    /\ Cardinality(FileHandlers(forwarded[1].handlers)) = 1
    /\ Cardinality(FileHandlers(handlers)) = 2
    /\ \A j \in FileHandlers(handlers) : handlers[j].path = handlers[1].path
    /\ forwarded[1].before.files[handlers[1].path] = <<>>
    /\ Len(files[handlers[1].path]) = 1

\* the severities of the five severity methods
Severities == {DEBUG, INFO, WARNING, ERROR, CRITICAL}

\* the handlers among hs of `kind`, writing to `path`, whose own level admits
\* a message at levelno
Admitting(hs, kind, path, levelno) ==
    {j \in DOMAIN hs :
        hs[j].kind = kind /\ hs[j].path = path /\ hs[j].level <= levelno}

\* C12: once init_logging has run the logger's own level is DEBUG, which
\* admits all five severities, and a message at severity s is delivered to a
\* handler if and only if s is at least that handler's own level, whatever
\* the levels of the other handlers: every call adds to each file, to the
\* console and to the UI callback one line per handler writing there whose
\* level is at most s.
C12_HandlerLevelsFilter ==
    /\ "main_log" \in DOMAIN loggerDict =>
          (level = DEBUG /\ \A s \in Severities : s >= level)
    /\ \A i \in Calls :
          LET r == forwarded[i]
          IN  /\ \A p \in DOMAIN r.before.files :
                    FileLines(i, p) =
                        Cardinality(Admitting(r.handlers, "file", p, r.levelno))
              /\ ConsoleLines(i) =
                    Cardinality(Admitting(r.handlers, "console", "", r.levelno))
              /\ UiLines(i) =
                    Cardinality(Admitting(r.handlers, "ui", "", r.levelno))

\* a WARNING message with a file handler at INFO and a file and a console
\* handler at ERROR: one line in the file, none on the console
C12_Witness ==
    \E i \in Calls :
        LET r == forwarded[i]
        IN  /\ r.levelno = WARNING
            /\ Len(r.handlers) = 3
            /\ r.handlers[1].kind = "file" /\ r.handlers[1].level = INFO
            /\ r.handlers[2].kind = "file" /\ r.handlers[2].level = ERROR
            /\ r.handlers[2].path = r.handlers[1].path
            /\ r.handlers[3].kind = "console" /\ r.handlers[3].level = ERROR
            /\ FileLines(i, r.handlers[1].path) = 1
            /\ ConsoleLines(i) = 0

\* the handlers of `kind` among the ones a step adds
Added(kind) ==
    {j \in DOMAIN handlers' : j > Len(handlers) /\ handlers'[j].kind = kind}

\* C14: every step keeps the handlers the logger has, in order and at their
\* levels; only init_logging adds handlers, and a call with level lv adds, in
\* this order, exactly one file handler, one console handler if and only if
\* print_in_con is set, and one UI handler if and only if a callback is
\* given, each at level lv.
C14_InitOnlyAdds ==
    [][/\ IsPrefix(handlers, handlers')
       /\ handlers' # handlers =>
             \E lv \in InitLevels, uf \in BOOLEAN, con \in BOOLEAN :
                 init_logging("log.txt", lv, "log", uf, con)
       /\ \A lv \in InitLevels, uf \in BOOLEAN, con \in BOOLEAN :
             init_logging("log.txt", lv, "log", uf, con) =>
                 /\ Cardinality(Added("file")) = 1
                 /\ Cardinality(Added("console")) = (IF con THEN 1 ELSE 0)
                 /\ Cardinality(Added("ui")) = (IF uf THEN 1 ELSE 0)
                 /\ Len(handlers') = Len(handlers) + 1
                        + (IF con THEN 1 ELSE 0) + (IF uf THEN 1 ELSE 0)
                 /\ \A j \in DOMAIN handlers' :
                        j > Len(handlers) => handlers'[j].level = lv
                 /\ handlers'[Len(handlers) + 1].kind = "file"
                 /\ handlers'[Len(handlers')].kind =
                        (IF uf THEN "ui" ELSE IF con THEN "console" ELSE "file")
      ]_vars

\* init_logging with print_in_con at INFO, then init_logging with a callback
\* at ERROR: file and console at INFO, then file and UI at ERROR
C14_Witness ==
    /\ Len(handlers) = 4
    /\ handlers[1].kind = "file" /\ handlers[1].level = INFO
    /\ handlers[2].kind = "console" /\ handlers[2].level = INFO
    /\ handlers[3].kind = "file" /\ handlers[3].level = ERROR
    /\ handlers[4].kind = "ui" /\ handlers[4].level = ERROR

----------------------------------------------------------------------------
(* Properties of the severity methods and of the enricher *)

\* the severity of the logging.Logger method of the same name
SeverityOf(method) ==
    CASE method = "debug" -> DEBUG
      [] method = "info" -> INFO
      [] method = "warning" -> WARNING
      [] method = "error" -> ERROR
      [] method = "critical" -> CRITICAL

\* calls i and j were made in the same annotation state, by the same
\* function, with the same raw message
SameInputs(i, j) ==
    /\ forwarded[i].proc_id = forwarded[j].proc_id
    /\ forwarded[i].print_func_name = forwarded[j].print_func_name
    /\ forwarded[i].func_name = forwarded[j].func_name
    /\ forwarded[i].raw = forwarded[j].raw

\* C13: each of debug, info, warning, error and critical hands its message
\* on at its own severity (a line it writes to the console carries the level
\* name of the method called), and any two calls made in the same annotation
\* state by the same function with the same raw message hand on the same
\* decorated string, whichever of the five methods they are.
C13_SameEnrichmentOwnSeverity ==
    /\ \A i \in Calls :
          LET r == forwarded[i]
              out == After(i).console
          IN  /\ r.levelno = SeverityOf(r.method)
              /\ ConsoleLines(i) >= 1 =>
                    out[Len(out)] = asctime \o " - " \o levelname(SeverityOf(r.method))
                                        \o " - " \o r.msg
    /\ \A i \in Calls, j \in Calls :
          SameInputs(i, j) => forwarded[i].msg = forwarded[j].msg

\* inside insert_proc_id("A"), debug and then critical, both from main: the
\* same string "A - m", at DEBUG and at CRITICAL
C13_Witness ==
    /\ Len(forwarded) = 2
    /\ forwarded[1].method = "debug" /\ forwarded[1].levelno = DEBUG
    /\ forwarded[2].method = "critical" /\ forwarded[2].levelno = CRITICAL
    /\ SameInputs(1, 2)
    /\ forwarded[1].msg = "A - m" /\ forwarded[2].msg = "A - m"
    /\ console = <<asctime \o " - CRITICAL - A - m">>

\* the string handed on at call i when `name` is the function name used
NamedBy(i, name) ==
    LET r == forwarded[i]
        with_func == name \o " - " \o r.raw
    IN  IF TruthyStr(r.proc_id) THEN r.proc_id[1] \o " - " \o with_func
        ELSE with_func

\* the other names on the stack of call i: the severity method, the
\* enrichment routine, and the functions above the direct caller
OtherFrames(i) ==
    {forwarded[i].method, "get_custome_msg"}
    \cup UNION {{cs[k] : k \in 1..(Len(cs) - 1)} :
                  cs \in {c \in CallStacks : c[Len(c)] = forwarded[i].func_name}}

\* C15: while the function-name flag is set, the name in the message handed
\* on is that of the function that called the severity method, for every call
\* stack, and not that of the severity method, of get_custome_msg, or of a
\* function further up the stack.
C15_DirectCallerNamed ==
    \A i \in Calls :
        TruthyBool(forwarded[i].print_func_name) =>
            /\ forwarded[i].msg = NamedBy(i, forwarded[i].func_name)
            /\ \A other \in OtherFrames(i) : forwarded[i].msg # NamedBy(i, other)

\* warning called by f, itself called by main, inside insert_func_name()
C15_Witness ==
    \E i \in Calls :
        /\ forwarded[i].method = "warning"
        /\ forwarded[i].func_name = "f"
        /\ "main" \in OtherFrames(i)
        /\ forwarded[i].print_func_name = Val(TRUE)
        /\ forwarded[i].proc_id = None
        /\ forwarded[i].msg = "f - m"

\* C16: whenever a thread has no region open, after whatever properly nested
\* entries and exits of the two kinds, by return or by failure, its caller ID
\* and its function-name flag are both None or never set, and a message it
\* emits then is handed on as the raw message.
C16_NoRegionNoAnnotation ==
    /\ \A t \in Threads :
          regions[t] = <<>> =>
              /\ getattr(thread_local[t], "proc_id") = None
              /\ getattr(thread_local[t], "print_func_name") = None
    /\ \A i \in Calls : Own(i) = <<>> => forwarded[i].msg = forwarded[i].raw

\* insert_proc_id("A") entered inside insert_func_name(), the inner region
\* left by return and the outer one by a failure: both attributes are None
C16_Witness ==
    /\ regions["main"] = <<>>
    /\ lastOp["main"] = [op |-> "exit", kind |-> "print_func_name",
                         arg |-> None, how |-> "raise"]
    /\ DOMAIN thread_local["main"] = Kinds
    /\ thread_local["main"]["proc_id"] = None
    /\ thread_local["main"]["print_func_name"] = None

\* C17: a call of a severity method leaves the annotation context as it
\* was: the attributes set in each thread's namespace and their values, the
\* calling thread's and every other thread's, are the same after the call as
\* before it, whether or not the message passes the handlers' levels.
C17_EmitReadsOnly ==
    [][forwarded' # forwarded =>
          \A t \in Threads :
              /\ DOMAIN thread_local'[t] = DOMAIN thread_local[t]
              /\ \A k \in Kinds :
                    getattr(thread_local'[t], k) = getattr(thread_local[t], k)]_vars

\* the worker, inside insert_proc_id("A"), has called debug, which no handler
\* lets through, while main is inside insert_func_name(): both attributes are
\* still set
C17_Witness ==
    /\ Len(forwarded) = 1
    /\ forwarded[1].thread = "worker"
    /\ forwarded[1].method = "debug"
    /\ forwarded[1].proc_id = Val("A")
    /\ forwarded[1].msg = "A - m"
    /\ ConsoleLines(1) = 0
    /\ getattr(thread_local["worker"], "proc_id") = Val("A")
    /\ getattr(thread_local["main"], "print_func_name") = Val(TRUE)

\* C18: the caller-ID prefix is applied exactly when the stored caller ID is
\* a non-empty string: with a non-empty ID stored the message handed on is
\* "<id> - " followed by the rest, otherwise it carries no caller ID; inside
\* insert_proc_id("") the message has no leading " - " and is the one handed
\* on with no caller-ID region active.
C18_EmptyIdNoPrefix ==
    \A i \in Calls :
        LET r == forwarded[i]
        IN  /\ IF r.proc_id # None /\ r.proc_id[1] # ""
               THEN WithCallerId(i, r.proc_id[1])
               ELSE NoCallerId(i)
            /\ r.proc_id = Val("") =>
                  /\ ~HasPrefix(r.msg, " - ")
                  /\ r.msg = (IF r.print_func_name = Val(TRUE)
                              THEN r.func_name \o " - " \o r.raw ELSE r.raw)

\* a message emitted inside insert_proc_id(""), the empty ID stored
\* in the thread's namespace, handed on bare
C18_Witness ==
    \E i \in Calls :
        /\ Len(Own(i)) = 1
        /\ Own(i)[1].kind = "proc_id" /\ Own(i)[1].arg = Val("")
        /\ forwarded[i].proc_id = Val("")
        /\ forwarded[i].msg = "m"

====
